---- MODULE Spec2Model ----
(***************************************************************************)
(* libcucul importers (cucul/import.c): cucul_import_canvas and its three  *)
(* decoders import_caca, import_text and import_ansi, with parse_tuple and *)
(* manage_modifiers.  Every loop of the C code is modelled one iteration   *)
(* per step; pc names the position in the code.                            *)
(*                                                                         *)
(* A byte is a number in 0..255.  A C int / unsigned int of the ANSI       *)
(* decoder is kept as the signed 32-bit number with the same bit pattern   *)
(* (an unsigned value u >= 2^31 is the number u - 2^32).  The 32-bit       *)
(* words of the native header are kept as four bytes, most significant     *)
(* first, as they lie in the buffer.                                       *)
(***************************************************************************)
EXTENDS Integers, Sequences, FiniteSets, TLC

\* ------------------------------------------------------------------ bytes

\* The character codes the inputs are written with.
Asc ==
  [ch \in {"ESC", "SUB", "LF", "CR", "NUL", " ", "-", "0", "1", "2", "3", "4",
           "5", "6", "7", "8", "9", ";", "A", "B", "C", "D", "E", "H", "I", "J", "K",
           "N", "S", "T", "U", "V", "X", "[", "_", "a", "c", "e", "f", "i", "m", "n",
           "s", "t", "u", "x", "z"} |->
     CASE ch = "ESC" -> 27 [] ch = "SUB" -> 26 [] ch = "LF" -> 10
       [] ch = "CR" -> 13 [] ch = "NUL" -> 0 [] ch = " " -> 32
       [] ch = "-" -> 45 [] ch = "0" -> 48 [] ch = "1" -> 49
       [] ch = "2" -> 50 [] ch = "3" -> 51 [] ch = "4" -> 52
       [] ch = "5" -> 53 [] ch = "6" -> 54 [] ch = "7" -> 55 [] ch = "8" -> 56
       [] ch = "9" -> 57 [] ch = ";" -> 59 [] ch = "A" -> 65
       [] ch = "B" -> 66 [] ch = "C" -> 67 [] ch = "D" -> 68
       [] ch = "E" -> 69 [] ch = "H" -> 72 [] ch = "J" -> 74
       [] ch = "K" -> 75 [] ch = "N" -> 78 [] ch = "S" -> 83
       [] ch = "T" -> 84 [] ch = "i" -> 105 [] ch = "I" -> 73
       [] ch = "U" -> 85 [] ch = "V" -> 86 [] ch = "X" -> 88
       [] ch = "[" -> 91 [] ch = "_" -> 95 [] ch = "a" -> 97
       [] ch = "c" -> 99 [] ch = "e" -> 101 [] ch = "f" -> 102
       [] ch = "m" -> 109 [] ch = "n" -> 110 [] ch = "s" -> 115
       [] ch = "t" -> 116 [] ch = "u" -> 117 [] ch = "x" -> 120
       [] ch = "z" -> 122]

\* The bytes of a string given as a tuple of characters.
Str(s) == [k \in 1..Len(s) |-> Asc[s[k]]]

Rep(b, k) == [n \in 1..k |-> b]

Max(a, b) == IF a >= b THEN a ELSE b

\* ------------------------------------------------- 32-bit int arithmetic

INT_MAX == 2147483647
INT_MIN == -2147483647 - 1

\* a + b modulo 2^32, on signed representatives.
Add32(a, b) ==
  IF b > 0 /\ a > INT_MAX - b THEN (a - INT_MAX - 1) + (b - INT_MAX - 1)
  ELSE IF b < 0 /\ a < INT_MIN - b THEN (a + INT_MAX + 1) + (b + INT_MAX + 1)
  ELSE a + b

\* -b modulo 2^32.
Neg32(b) == IF b = INT_MIN THEN INT_MIN ELSE 0 - b

\* a - b modulo 2^32.
Sub32(a, b) == Add32(a, Neg32(b))

\* ----------------------------------------------- 32-bit words of 4 bytes

\* The digits (base 256) of a word, least significant first, and back.
Digits(w) == [k \in 1..Len(w) |-> w[Len(w) + 1 - k]]
Word(d) == <<d[4], d[3], d[2], d[1]>>

\* The digits of a number n < 2^24, padded to four.
NatDigits(n) == <<n % 256, (n \div 256) % 256, (n \div 65536) % 256, 0>>

RECURSIVE ColSum(_, _, _, _)
ColSum(a, b, k, i) ==
  IF i > Len(a) THEN 0
  ELSE (IF k + 1 - i \in 1..Len(b) THEN a[i] * b[k + 1 - i] ELSE 0)
       + ColSum(a, b, k, i + 1)

RECURSIVE Carry(_, _)
Carry(cols, c) ==
  IF cols = <<>> THEN <<>>
  ELSE <<(Head(cols) + c) % 256>> \o Carry(Tail(cols), (Head(cols) + c) \div 256)

\* The exact product and sum of two digit strings (no digit is lost).
DMul(a, b) ==
  Carry([k \in 1..(Len(a) + Len(b)) |-> ColSum(a, b, k, 1)], 0)
DAdd(a, b) ==
  Carry([k \in 1..(Max(Len(a), Len(b)) + 1) |->
           (IF k <= Len(a) THEN a[k] ELSE 0) + (IF k <= Len(b) THEN b[k] ELSE 0)],
        0)

RECURSIVE Strip(_)
Strip(d) ==
  IF d # <<>> /\ d[Len(d)] = 0 THEN Strip(SubSeq(d, 1, Len(d) - 1)) ELSE d

\* unsigned int arithmetic: the low four digits of the exact result.
WMul(v, w) == Word(SubSeq(DMul(Digits(v), Digits(w)), 1, 4))
WAdd(v, w) == Word(SubSeq(DAdd(Digits(v), Digits(w)), 1, 4))
WNat(n) == Word(NatDigits(n))
WZero == <<0, 0, 0, 0>>

RECURSIVE DDec(_)
DDec(d) ==
  IF d = <<>> THEN <<>>
  ELSE IF Head(d) > 0 THEN <<Head(d) - 1>> \o Tail(d)
  ELSE <<255>> \o DDec(Tail(d))

\* w - 1 modulo 2^32.
WDec(w) == Word(DDec(Digits(w)))

\* Whether the word, read as an unsigned number, is below the small number n.
WBelow(w, n) == w[1] = 0 /\ w[2] * 65536 + w[3] * 256 + w[4] < n

\* 16 + width * height * 8 as the C expression computes it (unsigned int).
CacaSizeC(width, height) == WAdd(WNat(16), WMul(WMul(width, height), WNat(8)))

\* 16 + width * height * 8 as a number, given by its digits.
CacaSizeExact(width, height) ==
  Strip(DAdd(NatDigits(16), DMul(DMul(Digits(width), Digits(height)), <<8>>)))

\* ------------------------------------------------------ canvas interface

CUCUL_COLOR_BLACK == 0
CUCUL_COLOR_BLUE == 1
CUCUL_COLOR_GREEN == 2
CUCUL_COLOR_CYAN == 3
CUCUL_COLOR_RED == 4
CUCUL_COLOR_MAGENTA == 5
CUCUL_COLOR_BROWN == 6
CUCUL_COLOR_LIGHTGRAY == 7
CUCUL_COLOR_DEFAULT == 16
CUCUL_COLOR_TRANSPARENT == 32

\* The code point of a CP437 byte: ASCII maps to itself, NUL to 0, and the
\* other bytes to the symbols of the code page (kept apart from ASCII).
CP437_SYMBOLS == 9472
_cucul_cp437_to_utf32(ch) ==
  IF ch >= 32 /\ ch <= 126 THEN ch
  ELSE IF ch = 0 THEN 0
  ELSE CP437_SYMBOLS + ch

\* cucul_create_canvas: a blank canvas; no cell is written yet.  The handle
\* is "valid", or "NULL" when the creation failed.
NoCells == [p \in {} |-> 0]
cucul_create_canvas(w, h) ==
  [handle |-> "valid", width |-> w, height |-> h,
   fgcolor |-> CUCUL_COLOR_DEFAULT, bgcolor |-> CUCUL_COLOR_TRANSPARENT,
   cells |-> NoCells]

cucul_set_color(canvas, f, b) == [canvas EXCEPT !.fgcolor = f, !.bgcolor = b]

\* cucul_set_canvas_size keeps the cells inside the new bounds.
cucul_set_canvas_size(canvas, w, h) ==
  [canvas EXCEPT !.width = w, !.height = h,
     !.cells = [p \in {q \in DOMAIN canvas.cells : q[1] < w /\ q[2] < h}
                  |-> canvas.cells[p]]]

\* _cucul_putchar32 / cucul_putchar: the cell takes the character and the
\* active colour; a position outside the canvas stores nothing.
_cucul_putchar32(canvas, px, py, ch) ==
  IF px >= 0 /\ px < canvas.width /\ py >= 0 /\ py < canvas.height
  THEN [canvas EXCEPT !.cells =
          (<<px, py>> :> [ch |-> ch, fg |-> canvas.fgcolor, bg |-> canvas.bgcolor])
          @@ canvas.cells]
  ELSE canvas

\* _cucul_putchar32(canvas, j, py, ch) for j = from, from + 1, .. to - 1.
PutRun(canvas, from, to, py, ch) ==
  LET run == {<<j, py>> : j \in {k \in from..(to - 1) :
                 k >= 0 /\ k < canvas.width /\ py >= 0 /\ py < canvas.height}}
  IN [canvas EXCEPT !.cells =
        [p \in run \cup DOMAIN canvas.cells |->
           IF p \in run THEN [ch |-> ch, fg |-> canvas.fgcolor, bg |-> canvas.bgcolor]
           ELSE canvas.cells[p]]]

\* --------------------------------------------------- ANSI loader helpers

IS_ALPHA(b) == b >= Asc["A"] /\ b <= Asc["z"]
END_ARG == 4919

IsSpace(b) == b = 32 \/ (b >= 9 /\ b <= 13)
IsDigit(b) == b >= Asc["0"] /\ b <= Asc["9"]

\* What a char array of indeterminate content may be read as by atoi.
IndeterminateNbr == {<<>>, <<Asc["3"]>>}
\* atoi of a number that does not fit an int: the builds truncate or saturate.
AtoiOverflow == {-1, INT_MAX, INT_MIN}

RECURSIVE AtoiSkip(_)
AtoiSkip(s) == IF s # <<>> /\ IsSpace(Head(s)) THEN AtoiSkip(Tail(s)) ELSE s

\* The digits at the head of s, accumulated; -1 when they pass INT_MAX.
RECURSIVE AtoiAcc(_, _)
AtoiAcc(s, acc) ==
  IF s = <<>> \/ ~IsDigit(Head(s)) THEN acc
  ELSE LET d == Head(s) - Asc["0"] IN
       IF acc > (INT_MAX - d) \div 10 THEN -1
       ELSE AtoiAcc(Tail(s), acc * 10 + d)

\* atoi of the C string s (its bytes up to the terminator): the set of the
\* values it may return.
atoi(s) ==
  LET t == AtoiSkip(s)
      neg == t # <<>> /\ Head(t) = Asc["-"]
      u == IF t # <<>> /\ Head(t) \in {Asc["-"], 43} THEN Tail(t) ELSE t
      v == AtoiAcc(u, 0)
  IN IF v = -1 THEN AtoiOverflow
     ELSE {IF neg THEN 0 - v ELSE v}

\* The ANSI colour numbers taken as they are.
ansi2cucul_untranslated == <<0, 1, 2, 3, 4, 5, 6, 7>>

ansi2cucul ==
  <<CUCUL_COLOR_BLACK, CUCUL_COLOR_RED, CUCUL_COLOR_GREEN, CUCUL_COLOR_BROWN,
    CUCUL_COLOR_BLUE, CUCUL_COLOR_MAGENTA, CUCUL_COLOR_CYAN,
    CUCUL_COLOR_LIGHTGRAY>>

\* manage_modifiers: one SGR code applied to the colour locals
\* cs = [fg, bg, save_fg, save_bg, bold, reverse].
manage_modifiers(code, cs) ==
  IF code >= 30 /\ code <= 37 THEN [cs EXCEPT !.fg = ansi2cucul[code - 30 + 1]]
  ELSE IF code >= 40 /\ code <= 47 THEN [cs EXCEPT !.bg = ansi2cucul[code - 40 + 1]]
  ELSE IF code >= 90 /\ code <= 97 THEN [cs EXCEPT !.fg = ansi2cucul[code - 90 + 1] + 8]
  ELSE IF code >= 100 /\ code <= 107
    THEN [cs EXCEPT !.bg = ansi2cucul[code - 100 + 1] + 8]
  ELSE CASE code = 0 ->
              [cs EXCEPT !.fg = CUCUL_COLOR_DEFAULT, !.bg = CUCUL_COLOR_DEFAULT,
                         !.bold = 0, !.reverse = 0]
         [] code = 1 -> [cs EXCEPT !.bold = 1]
         [] code = 7 -> [cs EXCEPT !.reverse = 1]
         [] code = 8 ->
              [cs EXCEPT !.save_fg = cs.fg, !.save_bg = cs.bg,
                         !.fg = CUCUL_COLOR_TRANSPARENT,
                         !.bg = CUCUL_COLOR_TRANSPARENT]
         [] code = 28 -> [cs EXCEPT !.fg = cs.save_fg, !.bg = cs.save_bg]
         [] code = 39 -> [cs EXCEPT !.fg = CUCUL_COLOR_DEFAULT]
         [] code = 49 -> [cs EXCEPT !.bg = CUCUL_COLOR_DEFAULT]
         [] OTHER -> cs

\* The for loop of the 'm' command: every argument in turn.
RECURSIVE ApplyModifiers(_, _)
ApplyModifiers(args, cs) ==
  IF args = <<>> THEN cs
  ELSE ApplyModifiers(Tail(args), manage_modifiers(Head(args), cs))

\* The bold promotion that follows the loop.
Promote(cs) ==
  LET f == IF cs.bold # 0 /\ cs.fg < 8 THEN cs.fg + 8 ELSE cs.fg
      b == IF cs.bold # 0 /\ cs.bg < 8 THEN cs.bg + 8 ELSE cs.bg
  IN [cs EXCEPT !.fg = f, !.bg = b]

\* while(argv[argc] != END_ARG) argc++: the entries before the first END_ARG.
\* args holds the stored entries; the terminator the parser wrote follows.
RECURSIVE CountArgs(_)
CountArgs(args) ==
  IF args = <<>> \/ Head(args) = END_ARG THEN 0 ELSE 1 + CountArgs(Tail(args))

\* ------------------------------------------------------------------ state

VARIABLES
  data, size, format, nulldata, \* the arguments of cucul_import_canvas
  pc,                           \* the position in the code
  decoder,                      \* the decoder cucul_import_canvas called
  result,                       \* "pending", "NULL" or "cv": the value returned
  cv,                           \* the canvas: its handle, size, colour and cells
  i, x, y, width, height,       \* locals of import_text and import_ansi
  save_x, save_y, skip, c, argv, \* locals of import_ansi
  cs,                           \* fg, bg, save_fg, save_bg, bold, reverse
  pt,                           \* locals of parse_tuple: i, j, t, size, nbr
  caca,                         \* locals of import_caca: width, height, n
  wrote,                        \* the cell writes of the last step
  oobRead,                      \* the last step read a byte at an index >= size
  store,                        \* the highest argv / nbr index the last step stored to
  ub                            \* the undefined behaviour that ended the run

VARIABLES
  demo, next, pause,            \* locals of main in cacademo.c
  next_transition, transition,
  frame,                        \* the global frame counter
  live,                         \* the effects between their INIT and their FREE
  calls                         \* the calls of fn[] made by the last step

mainLocals == <<demo, next, pause, next_transition, transition, frame, live, calls>>
args == <<data, size, format, nulldata>>
ansiLocals == <<x, y, width, height, save_x, save_y, skip, c, argv, cs, pt>>
ghosts == <<wrote, oobRead, store>>
vars == <<data, size, format, nulldata, pc, decoder, result, cv, i, x, y, width,
          height, save_x, save_y, skip, c, argv, cs, pt, caca, wrote, oobRead,
          store, ub, demo, next, pause, next_transition, transition, frame,
          live, calls>>

NoCanvas(h) ==
  [handle |-> h, width |-> 0, height |-> 0, fgcolor |-> 0, bgcolor |-> 0,
   cells |-> NoCells]
NoWrite == [n |-> 0, x |-> 0, y |-> 0, w |-> 0, h |-> 0, off |-> 0]
NoStore == [argv |-> -1, nbr |-> -1]
NoParse == [i |-> 0, j |-> 0, t |-> 0, size |-> 0, nbr |-> <<>>, set |-> FALSE]
NoCaca == [width |-> WZero, height |-> WZero, n |-> WZero]
NoColour == [fg |-> 0, bg |-> 0, save_fg |-> 0, save_bg |-> 0, bold |-> 0,
             reverse |-> 0]

\* cacademo.c
DEMOS == 4
DEMO_FRAMES == 1000
TRANSITION_FRAMES == 40
TRANSITION_COUNT == 2

\* The initialisers of main's locals and of frame; demo and transition are
\* assigned before they are read.
MainLocalsInit ==
  /\ demo = -1 /\ next = -1 /\ pause = 0 /\ next_transition = DEMO_FRAMES
  /\ transition = 0 /\ frame = 0 /\ live = {} /\ calls = <<>>

\* buffer[k]
Byte(k) == data[k + 1]

\* The state at the call of cucul_import_canvas(d, n, f); a null data has
\* no bytes, whatever the size passed with it.
CalledWith(d, n, f, isnull) ==
  /\ data = d /\ size = n /\ format = f /\ nulldata = isnull
  /\ pc = "import" /\ decoder = "none" /\ result = "pending" /\ cv = NoCanvas("unset")
  /\ i = 0 /\ x = 0 /\ y = 0 /\ width = 0 /\ height = 0
  /\ save_x = 0 /\ save_y = 0 /\ skip = 0 /\ c = 0 /\ argv = <<>>
  /\ cs = NoColour /\ pt = NoParse /\ caca = NoCaca
  /\ wrote = NoWrite /\ oobRead = FALSE /\ store = NoStore /\ ub = "none"
  /\ MainLocalsInit

\* The call on a buffer of Len(d) bytes.
Called(d, f, isnull) == CalledWith(d, Len(d), f, isnull)

\* ------------------------------------------------- cucul_import_canvas

ToLower(b) == IF b >= Asc["A"] /\ b <= 90 THEN b + 32 ELSE b
\* A comparison that stops at the end of b.
strncasecmp0(a, b) ==
  Len(b) <= Len(a) /\ \A k \in 1..Len(b) : ToLower(a[k]) = ToLower(b[k])

\* strcasecmp(a, b) == 0
strcasecmp0(a, b) ==
  Len(a) = Len(b) /\ \A k \in 1..Len(a) : ToLower(a[k]) = ToLower(b[k])

\* The autodetection loop: while(i < size-1) ... i++
RECURSIVE ScanEsc(_)
ScanEsc(k) ==
  IF k < size - 1
  THEN IF Byte(k) = Asc["ESC"] /\ Byte(k + 1) = Asc["["] THEN TRUE
       ELSE ScanEsc(k + 1)
  ELSE FALSE

\* The test for the four letters of the magic.
DetectCacaMagic ==
  /\ size >= 4
  /\ Byte(0) = Asc["C"] /\ Byte(1) = Asc["A"] /\ Byte(2) = Asc["C"]
  /\ Byte(3) = Asc["A"]

\* The test that selects import_caca under autodetection.
DetectCaca ==
  /\ size >= 4
  /\ Byte(0) = Asc["C"] /\ Byte(1) = Asc["A"] /\ Byte(2) = Asc["C"]
  /\ Byte(3) # Asc["A"]

\* The dispatch without the test of size and data.
DispatchUnguarded ==
  IF strcasecmp0(Str(<<"c", "a", "c", "a">>), format) THEN "caca"
  ELSE IF strcasecmp0(Str(<<"t", "e", "x", "t">>), format) THEN "text"
  ELSE IF strcasecmp0(Str(<<"a", "n", "s", "i">>), format) THEN "ansi"
  ELSE IF strcasecmp0(<<>>, format) THEN "text"
  ELSE "NULL"

\* The dispatch that looks at the content whatever the format names.
DispatchSniffing ==
  IF size = 0 \/ nulldata THEN "NULL"
  ELSE IF \E f \in {<<>>, Str(<<"c", "a", "c", "a">>), Str(<<"t", "e", "x", "t">>),
                    Str(<<"a", "n", "s", "i">>)} : strcasecmp0(f, format)
    THEN IF DetectCaca THEN "caca"
         ELSE IF ScanEsc(0) THEN "ansi"
         ELSE "text"
  ELSE "NULL"

\* The decoder cucul_import_canvas calls, or "NULL" when it returns NULL.
Dispatch ==
  IF size = 0 \/ nulldata THEN "NULL"
  ELSE IF strcasecmp0(Str(<<"c", "a", "c", "a">>), format) THEN "caca"
  ELSE IF strcasecmp0(Str(<<"t", "e", "x", "t">>), format) THEN "text"
  ELSE IF strcasecmp0(Str(<<"a", "n", "s", "i">>), format) THEN "ansi"
  ELSE IF strcasecmp0(<<>>, format)
    THEN IF DetectCaca THEN "caca"
         ELSE IF ScanEsc(0) THEN "ansi"
         ELSE "text"
  ELSE "NULL"

ImportCall ==
  /\ pc = "import"
  /\ IF Dispatch = "NULL"
     THEN /\ result' = "NULL" /\ pc' = "done" /\ UNCHANGED decoder
     ELSE /\ decoder' = Dispatch /\ pc' = Dispatch /\ UNCHANGED result
  /\ UNCHANGED <<args, mainLocals, cv, i, ansiLocals, caca, ghosts, ub>>

\* ------------------------------------------------------------ import_caca

CacaMagic == Str(<<"C", "A", "C", "A", "C", "A", "N", "V">>)

\* The checks of import_caca up to the canvas creation.
CacaEnter ==
  /\ pc = "caca"
  /\ LET w == SubSeq(data, 9, 12)
         h == SubSeq(data, 13, 16)
         bad == \/ size < 16
                \/ SubSeq(data, 1, 4) # SubSeq(CacaMagic, 1, 4)
                \/ SubSeq(data, 5, 8) # SubSeq(CacaMagic, 5, 8)
                \/ w = WZero \/ h = WZero
                \/ WNat(size) # CacaSizeC(w, h)
     IN IF bad
        THEN /\ result' = "NULL" /\ pc' = "done" /\ UNCHANGED <<cv, caca>>
        ELSE \E ok \in BOOLEAN :
               IF ok
               THEN /\ cv' = cucul_create_canvas(w, h)
                    /\ caca' = [width |-> w, height |-> h, n |-> WMul(h, w)]
                    /\ pc' = "caca_loop" /\ UNCHANGED result
               ELSE /\ cv' = NoCanvas("NULL")
                    /\ caca' = [width |-> w, height |-> h, n |-> WZero]
                    /\ result' = "NULL" /\ pc' = "done"
  /\ UNCHANGED <<args, mainLocals, decoder, i, ansiLocals, ghosts, ub>>

\* The index with the records taken as 4 bytes long.
CacaIndexHalfRecord(k, n) == WAdd(WNat(16 + k), WMul(WNat(4), n))

\* buf[16 + k + 8 * n], the index computed in unsigned int.
CacaIndex(k, n) == WAdd(WNat(16 + k), WMul(WNat(8), n))
CacaByte(k, n) ==
  LET w == CacaIndex(k, n) IN data[w[2] * 65536 + w[3] * 256 + w[4] + 1]

\* One turn of for(n = height * width; n--; ).  Cell n is kept under its
\* position (n % width, n / width); a cell index of 2^24 or more is not
\* kept.
CacaStep ==
  /\ pc = "caca_loop"
  /\ IF caca.n = WZero
     THEN /\ result' = "cv" /\ pc' = "done"
          /\ UNCHANGED <<cv, caca, oobRead, ub>>
     ELSE LET n == WDec(caca.n)
              inside == \A k \in 0..7 : WBelow(CacaIndex(k, n), size)
              wi == caca.width[2] * 65536 + caca.width[3] * 256 + caca.width[4]
              ni == n[2] * 65536 + n[3] * 256 + n[4]
          IN /\ caca' = [caca EXCEPT !.n = n]
             /\ oobRead' = ~inside
             /\ IF ~inside
                THEN /\ ub' = "read outside the buffer" /\ pc' = "ub"
                     /\ UNCHANGED cv
                ELSE /\ UNCHANGED <<ub, pc>>
                     /\ IF caca.width[1] = 0 /\ n[1] = 0
                        THEN cv' = [cv EXCEPT !.cells =
                               (<<ni % wi, ni \div wi>> :>
                                  [ch |-> [k \in 1..4 |-> CacaByte(k - 1, n)],
                                   attr |-> [k \in 1..4 |-> CacaByte(k + 3, n)]])
                               @@ cv.cells]
                        ELSE UNCHANGED cv
          /\ UNCHANGED result
  /\ UNCHANGED <<args, mainLocals, decoder, i, ansiLocals, wrote, store>>

\* ------------------------------------------------------------ import_text

\* cucul_create_canvas(1, 1) and cucul_set_color; the colour is set on the
\* handle without a test for NULL.
TextEnter ==
  /\ pc = "text"
  /\ \E ok \in BOOLEAN :
       IF ok
       THEN /\ cv' = cucul_set_color(cucul_create_canvas(1, 1),
                                     CUCUL_COLOR_DEFAULT, CUCUL_COLOR_TRANSPARENT)
            /\ pc' = "text_loop" /\ UNCHANGED ub
       ELSE /\ cv' = NoCanvas("NULL")
            /\ pc' = "ub" /\ ub' = "operation on a NULL canvas"
  /\ width' = 1 /\ height' = 1 /\ x' = 0 /\ y' = 0 /\ i' = 0
  /\ UNCHANGED <<args, mainLocals, decoder, result, save_x, save_y, skip, c, argv, cs, pt,
                 caca, ghosts>>

\* The width and the height left as they are.
TextWidthKept(px, w) == w

\* if(x >= width) width = x + 1;  if(y >= height) height = y + 1;
TextWidth(px, w) == IF px >= w THEN px + 1 ELSE w
TextHeight(py, h) == IF py >= h THEN py + 1 ELSE h

\* One turn of for(i = 0; i < size; i++), or the return after the loop.
TextStep ==
  /\ pc = "text_loop"
  /\ IF i >= size
     THEN /\ result' = "cv" /\ pc' = "done"
          /\ UNCHANGED <<cv, i, x, y, width, height, wrote>>
     ELSE LET ch == Byte(i) IN
          /\ i' = i + 1 /\ UNCHANGED <<result, pc>>
          /\ IF ch = Asc["CR"]
             THEN UNCHANGED <<cv, x, y, width, height>> /\ wrote' = NoWrite
             ELSE IF ch = Asc["LF"]
             THEN /\ x' = 0 /\ y' = y + 1
                  /\ UNCHANGED <<cv, width, height>> /\ wrote' = NoWrite
             ELSE LET w == TextWidth(x, width)
                      h == TextHeight(y, height)
                      sized == IF x >= width \/ y >= height
                               THEN cucul_set_canvas_size(cv, w, h) ELSE cv
                  IN /\ width' = w /\ height' = h
                     /\ cv' = _cucul_putchar32(sized, x, y, ch)
                     /\ wrote' = [n |-> 1, x |-> x, y |-> y, w |-> sized.width,
                                  h |-> sized.height, off |-> i]
                     /\ x' = x + 1 /\ UNCHANGED y
  /\ UNCHANGED <<args, mainLocals, decoder, save_x, save_y, skip, c, argv, cs, pt, caca,
                 oobRead, store, ub>>

\* ------------------------------------------------------------ import_ansi

ARGV_SIZE == 1024
NBR_SIZE == 1024

\* What a read of buffer[k] may give: the byte, or for k >= size whatever
\* lies behind the buffer (the introducer's second byte or another one).
Peek(k) == IF k < size THEN {Byte(k)} ELSE {Asc["["], Asc["NUL"]}

\* buffer[i] == '\x1a' && size - i >= 8 && !memcmp(buffer + i + 1, "SAUCE00", 7)
IsSauce(k) ==
  /\ Byte(k) = Asc["SUB"]
  /\ size - k >= 8
  /\ SubSeq(data, k + 2, k + 8) = Str(<<"S", "A", "U", "C", "E", "0", "0">>)

\* for(j = i; j < (int)size; j++) if(IS_ALPHA(buffer[j])) { c = buffer[j]; break; }
FinalByte(from) ==
  LET alphas == {j \in from..(size - 1) : IS_ALPHA(Byte(j))} IN
  IF alphas = {} THEN 0
  ELSE Byte(CHOOSE j \in alphas : \A k \in alphas : j <= k)

\* The locals at the entry of import_ansi, the canvas creation and the first
\* cucul_set_color, which is made on the handle without a test for NULL.
AnsiEnter ==
  /\ pc = "ansi"
  /\ x' = 0 /\ y' = 0 /\ width' = 80 /\ height' = 25
  /\ save_x' = 0 /\ save_y' = 0 /\ i' = 0
  /\ cs' = [fg |-> CUCUL_COLOR_LIGHTGRAY, bg |-> CUCUL_COLOR_BLACK,
            save_fg |-> CUCUL_COLOR_LIGHTGRAY, save_bg |-> CUCUL_COLOR_BLACK,
            bold |-> 0, reverse |-> 0]
  /\ \E ok \in BOOLEAN :
       IF ok
       THEN /\ cv' = cucul_set_color(cucul_create_canvas(80, 25),
                                     CUCUL_COLOR_LIGHTGRAY, CUCUL_COLOR_BLACK)
            /\ pc' = "ansi_loop" /\ UNCHANGED ub
       ELSE /\ cv' = NoCanvas("NULL")
            /\ pc' = "ub" /\ ub' = "operation on a NULL canvas"
  /\ UNCHANGED <<args, mainLocals, decoder, result, skip, c, argv, pt, caca, ghosts>>

\* The loop test fails: return cv.
AnsiReturn ==
  /\ pc = "ansi_loop" /\ i >= size
  /\ result' = "cv" /\ pc' = "done"
  /\ UNCHANGED <<args, mainLocals, decoder, cv, i, ansiLocals, caca, ghosts, ub>>

\* break before the SAUCE record.
AnsiSauce ==
  /\ pc = "ansi_loop" /\ i < size /\ IsSauce(i)
  /\ result' = "cv" /\ pc' = "done"
  /\ wrote' = NoWrite /\ oobRead' = FALSE /\ store' = NoStore
  /\ UNCHANGED <<args, mainLocals, decoder, cv, i, ansiLocals, caca, ub>>

\* '\r': continue.
AnsiCR ==
  /\ pc = "ansi_loop" /\ i < size /\ ~IsSauce(i)
  /\ Byte(i) = Asc["CR"]
  /\ i' = i + 1
  /\ wrote' = NoWrite /\ oobRead' = FALSE /\ store' = NoStore
  /\ UNCHANGED <<args, mainLocals, decoder, result, pc, cv, ansiLocals, caca, ub>>

\* '\n': x = 0; y++.  The increment of an int at INT_MAX is undefined: the
\* run wraps here and ends in AnsiIntOverflow.
AnsiLF ==
  /\ pc = "ansi_loop" /\ i < size /\ ~IsSauce(i)
  /\ Byte(i) = Asc["LF"]
  /\ x' = 0 /\ y' = Add32(y, 1)
  /\ i' = i + 1
  /\ wrote' = NoWrite /\ oobRead' = FALSE /\ store' = NoStore
  /\ UNCHANGED <<args, mainLocals, decoder, result, pc, cv, width, height, save_x, save_y,
                 skip, c, argv, cs, pt, caca, ub>>

\* buffer[i] == '\x1b' && buffer[i + 1] == '[': the introducer is skipped,
\* the final byte looked up and parse_tuple entered (ret[0] = END_ARG).
AnsiEscape ==
  /\ pc = "ansi_loop" /\ i < size /\ ~IsSauce(i)
  /\ Byte(i) = Asc["ESC"]
  /\ Asc["["] \in Peek(i + 1)
  /\ i' = i + 2
  /\ skip' = 1
  /\ c' = FinalByte(i + 2)
  /\ argv' = <<>>
  /\ pt' = [i |-> 0, j |-> 0, t |-> 0, size |-> size - (i + 2), nbr |-> <<>>,
            set |-> FALSE]
  /\ pc' = "parse"
  /\ wrote' = NoWrite /\ oobRead' = (i + 1 >= size)
  /\ store' = [argv |-> 0, nbr |-> -1]
  /\ UNCHANGED <<args, mainLocals, decoder, result, cv, x, y, width, height, save_x, save_y,
                 cs, caca, ub>>

\* An ordinary character: wrap, grow, paste, advance.
AnsiPutChar ==
  /\ pc = "ansi_loop" /\ i < size /\ ~IsSauce(i)
  /\ Byte(i) \notin {Asc["CR"], Asc["LF"]}
  /\ \E nb \in (IF Byte(i) = Asc["ESC"] THEN Peek(i + 1) ELSE {Asc["NUL"]}) :
       /\ ~(Byte(i) = Asc["ESC"] /\ nb = Asc["["])
       /\ LET x1 == IF x >= width THEN 0 ELSE x
              y1 == IF x >= width THEN Add32(y, 1) ELSE y
              h1 == IF y1 >= height THEN Add32(y1, 1) ELSE height
              sized == IF y1 >= height THEN cucul_set_canvas_size(cv, width, h1)
                       ELSE cv
          IN /\ height' = h1
             /\ cv' = _cucul_putchar32(sized, x1, y1, _cucul_cp437_to_utf32(Byte(i)))
             /\ wrote' = [n |-> 1, x |-> x1, y |-> y1, w |-> sized.width,
                          h |-> sized.height, off |-> i]
             /\ x' = Add32(x1, 1) /\ y' = y1
  /\ oobRead' = (Byte(i) = Asc["ESC"] /\ i + 1 >= size)
  /\ i' = i + 1
  /\ store' = NoStore
  /\ UNCHANGED <<args, mainLocals, decoder, result, pc, width, save_x, save_y, skip, c, argv,
                 cs, pt, caca, ub>>

\* y++ or height = y + 1 on an int at INT_MAX: signed overflow.
AnsiIntOverflow ==
  /\ pc = "ansi_loop" /\ i < size /\ ~IsSauce(i)
  /\ Byte(i) # Asc["CR"]
  /\ y = INT_MAX
  /\ Byte(i) = Asc["ESC"] => \E nb \in Peek(i + 1) : nb # Asc["["]
  /\ pc' = "ub" /\ ub' = "signed overflow"
  /\ wrote' = NoWrite /\ oobRead' = (Byte(i) = Asc["ESC"] /\ i + 1 >= size)
  /\ store' = NoStore
  /\ UNCHANGED <<args, mainLocals, decoder, result, cv, i, ansiLocals, caca>>

\* ------------------------------------------------------------ parse_tuple

\* buffer[i] of parse_tuple, whose buffer starts at the caller's index i.
ParseByteAt == Byte(i + pt.i)

\* The contents atoi((char*)nbr) may find: nbr holds nothing defined before
\* its first byte is stored, and keeps what it held between two reads.
NbrRead == IF pt.set THEN {pt.nbr} ELSE IndeterminateNbr

\* The loop test fails: return size.
ParseEnd ==
  /\ pc = "parse" /\ pt.i >= pt.size
  /\ skip' = Add32(skip, pt.size)
  /\ pc' = "dispatch"
  /\ store' = NoStore /\ oobRead' = FALSE
  /\ pt' = NoParse
  /\ UNCHANGED <<args, mainLocals, decoder, result, cv, i, x, y, width, height, save_x,
                 save_y, c, argv, cs, caca, wrote, ub>>

\* IS_ALPHA(buffer[i]): the pending number and the terminator are stored
\* and i is returned.
ParseAlpha ==
  /\ pc = "parse" /\ pt.i < pt.size
  /\ IS_ALPHA(ParseByteAt)
  /\ \E v \in (IF pt.j # 0 THEN atoi(pt.nbr) ELSE {0}) :
       LET t1 == IF pt.j # 0 THEN pt.t + 1 ELSE pt.t IN
       /\ store' = [argv |-> t1, nbr |-> -1]
       /\ IF t1 >= ARGV_SIZE
          THEN /\ pc' = "ub" /\ ub' = "store outside argv"
               /\ UNCHANGED <<argv, pt, skip>>
          ELSE /\ argv' = IF pt.j # 0 THEN Append(argv, v) ELSE argv
               /\ pt' = NoParse
               /\ skip' = Add32(skip, pt.i)
               /\ pc' = "dispatch" /\ UNCHANGED ub
  /\ oobRead' = FALSE
  /\ UNCHANGED <<args, mainLocals, decoder, result, cv, i, x, y, width, height, save_x,
                 save_y, c, cs, caca, wrote>>

\* A byte other than ';': nbr[j] = buffer[i]; nbr[j + 1] = 0; j++.
ParseChar ==
  /\ pc = "parse" /\ pt.i < pt.size
  /\ ~IS_ALPHA(ParseByteAt) /\ ParseByteAt # Asc[";"]
  /\ store' = [argv |-> -1, nbr |-> pt.j + 1]
  /\ IF pt.j + 1 >= NBR_SIZE
     THEN /\ pc' = "ub" /\ ub' = "store outside nbr" /\ UNCHANGED pt
     ELSE /\ pt' = [pt EXCEPT !.nbr = SubSeq(pt.nbr, 1, pt.j) \o <<ParseByteAt>>,
                              !.set = TRUE, !.j = pt.j + 1, !.i = pt.i + 1]
          /\ UNCHANGED <<pc, ub>>
  /\ oobRead' = FALSE
  /\ UNCHANGED <<args, mainLocals, decoder, result, cv, i, x, y, width, height, save_x,
                 save_y, skip, c, argv, cs, caca, wrote>>

\* ';': ret[t] = atoi(nbr); t++; ret[t] = END_ARG; j = 0.
ParseSemi ==
  /\ pc = "parse" /\ pt.i < pt.size
  /\ ParseByteAt = Asc[";"]
  /\ store' = [argv |-> pt.t + 1, nbr |-> -1]
  /\ IF pt.t + 1 >= ARGV_SIZE
     THEN /\ pc' = "ub" /\ ub' = "store outside argv" /\ UNCHANGED <<argv, pt>>
     ELSE /\ \E held \in NbrRead : \E v \in atoi(held) :
               /\ argv' = Append(argv, v)
               /\ pt' = [pt EXCEPT !.t = pt.t + 1, !.j = 0, !.i = pt.i + 1,
                                   !.nbr = held, !.set = TRUE]
          /\ UNCHANGED <<pc, ub>>
  /\ oobRead' = FALSE
  /\ UNCHANGED <<args, mainLocals, decoder, result, cv, i, x, y, width, height, save_x,
                 save_y, skip, c, cs, caca, wrote>>

\* ------------------------------------------------- import_ansi: commands

argc == CountArgs(argv)
\* argv[0]: the first argument, or the terminator when there is none.
Arg0 == IF argv = <<>> THEN END_ARG ELSE argv[1]
\* argc ? argv[0] : 1
Arg0Or1 == IF argc # 0 THEN argv[1] ELSE 1

Is(ch) == c = Asc[ch]

\* continue: i += skip at the end of the turn.
Continue ==
  /\ pc = "dispatch"
  /\ i' = Add32(i, skip)
  /\ pc' = "ansi_loop"
  /\ oobRead' = FALSE /\ store' = NoStore
  /\ UNCHANGED <<args, mainLocals, decoder, result, width, height, skip, c, argv, pt, caca,
                 ub>>

\* case 'f': case 'H'
CmdPosition ==
  /\ Is("f") \/ Is("H")
  /\ Continue
  /\ CASE argc = 0 -> x' = 0 /\ y' = 0
       [] argc = 1 -> y' = Sub32(argv[1], 1) /\ x' = 0
       [] argc = 2 -> y' = Sub32(argv[1], 1) /\ x' = Sub32(argv[2], 1)
       [] OTHER -> UNCHANGED <<x, y>>
  /\ wrote' = NoWrite
  /\ UNCHANGED <<cv, save_x, save_y, cs>>

\* case 'A'
CmdUp ==
  /\ Is("A")
  /\ Continue
  /\ y' = IF Sub32(y, Arg0Or1) < 0 THEN 0 ELSE Sub32(y, Arg0Or1)
  /\ wrote' = NoWrite
  /\ UNCHANGED <<cv, x, save_x, save_y, cs>>

\* case 'B'
CmdDown ==
  /\ Is("B")
  /\ Continue
  /\ y' = Add32(y, Arg0Or1)
  /\ wrote' = NoWrite
  /\ UNCHANGED <<cv, x, save_x, save_y, cs>>

\* case 'C'
CmdRight ==
  /\ Is("C")
  /\ Continue
  /\ x' = Add32(x, Arg0Or1)
  /\ wrote' = NoWrite
  /\ UNCHANGED <<cv, y, save_x, save_y, cs>>

\* case 'D'
CmdLeft ==
  /\ Is("D")
  /\ Continue
  /\ x' = IF Sub32(x, Arg0Or1) < 0 THEN 0 ELSE Sub32(x, Arg0Or1)
  /\ wrote' = NoWrite
  /\ UNCHANGED <<cv, y, save_x, save_y, cs>>

\* case 's'
CmdSave ==
  /\ Is("s")
  /\ Continue
  /\ save_x' = x /\ save_y' = y
  /\ wrote' = NoWrite
  /\ UNCHANGED <<cv, x, y, cs>>

\* A restore that goes to the origin.
CmdRestoreOrigin ==
  /\ Is("u")
  /\ Continue
  /\ x' = 0 /\ y' = 0
  /\ wrote' = NoWrite
  /\ UNCHANGED <<cv, save_x, save_y, cs>>

\* case 'u'
CmdRestore ==
  /\ Is("u")
  /\ Continue
  /\ x' = save_x /\ y' = save_y
  /\ wrote' = NoWrite
  /\ UNCHANGED <<cv, save_x, save_y, cs>>

\* case 'J'
CmdErase ==
  /\ Is("J")
  /\ Continue
  /\ IF Arg0 = 2 THEN x' = 0 /\ y' = 0 ELSE UNCHANGED <<x, y>>
  /\ wrote' = NoWrite
  /\ UNCHANGED <<cv, save_x, save_y, cs>>

\* case 'K': for(j = x; j < width; j++) _cucul_putchar32(cv, j, y, ' ')
CmdClearLine ==
  /\ Is("K")
  /\ Continue
  /\ cv' = PutRun(cv, x, width, y, Asc[" "])
  /\ wrote' = [n |-> IF x < width THEN width - x ELSE 0, x |-> x, y |-> y,
               w |-> cv.width, h |-> cv.height, off |-> i + skip - 1]
  /\ x' = width
  /\ UNCHANGED <<y, save_x, save_y, cs>>

\* case 'm'
CmdColour ==
  /\ Is("m")
  /\ Continue
  /\ LET after == Promote(ApplyModifiers(SubSeq(argv, 1, argc), cs)) IN
     /\ cs' = after
     /\ cv' = IF after.reverse # 0 THEN cucul_set_color(cv, after.bg, after.fg)
              ELSE cucul_set_color(cv, after.fg, after.bg)
  /\ wrote' = NoWrite
  /\ UNCHANGED <<x, y, save_x, save_y>>

\* default: and the sequence with no final byte (c == '\0')
CmdOther ==
  /\ c \notin {Asc[l] : l \in {"f", "H", "A", "B", "C", "D", "s", "u", "J", "K", "m"}}
  /\ Continue
  /\ wrote' = NoWrite
  /\ UNCHANGED <<cv, x, y, save_x, save_y, cs>>

\* ---------------------------------------------------------------- inputs

MaxFrags == 2
MaxImportFrags == 1

CSI == Str(<<"ESC", "[">>)
Esc(s) == CSI \o Str(s)

\* The pieces the buffers are put together from: single bytes, truncated
\* and complete escape sequences, and the SAUCE marker.
Fragments ==
  { Str(<<"A">>), Str(<<"LF">>), Str(<<"CR">>), Str(<<"ESC">>), CSI,
    Str(<<"SUB", "S", "A", "U", "C", "E", "0", "0">>),
    Esc(<<"H">>), Esc(<<"0", "H">>), Esc(<<"2", ";", "0", "f">>),
    Esc(<<"3", "0", ";", "9", "0", "H">>), Esc(<<"5", ";", ";", "H">>),
    Esc(<<";", "H">>), Esc(<<"4", "9", "1", "9", ";", "5", "H">>),
    Esc(<<"A">>), Esc(<<"2", "A">>), Esc(<<"-", "1", "A">>),
    Esc(<<"1", "_", "A">>),
    Esc(<<"3", "B">>),
    Esc(<<"2", "1", "4", "7", "4", "8", "3", "6", "4", "7", "B">>),
    Esc(<<"3", "C">>), Esc(<<"D">>), Esc(<<"-", "1", "D">>),
    Esc(<<"s">>), Esc(<<"u">>), Esc(<<"J">>), Esc(<<"2", "J">>),
    Esc(<<"K">>),
    Esc(<<"m">>), Esc(<<"0", "m">>), Esc(<<"3", "1", "m">>),
    Esc(<<"1", ";", "3", "1", "m">>), Esc(<<"7", ";", "4", "4", "m">>),
    Esc(<<"8", "m">>), Esc(<<"2", "8", "m">>),
    Esc(<<"z">>), Esc(<<"1">>) }

\* The buffers of at most k fragments.
RECURSIVE FragInputs(_)
FragInputs(k) ==
  IF k = 0 THEN {<<>>}
  ELSE FragInputs(k - 1) \cup
       {d \o f : d \in FragInputs(k - 1), f \in Fragments}

\* Escape sequences that fill argv and nbr to their ends.
LongInputs ==
  { CSI \o Rep(Asc[";"], ARGV_SIZE) \o Str(<<"m">>),
    CSI \o Rep(Asc["1"], NBR_SIZE) \o Str(<<"m">>),
    CSI \o Rep(Asc["1"], NBR_SIZE) \o Str(<<"z">>) }

\* Native buffers: the two magics, the width and the height, and records.
Words == { <<0, 0, 0, 0>>, <<0, 0, 0, 1>>, <<0, 0, 0, 2>>, <<0, 1, 0, 0>>,
           <<32, 0, 0, 0>>, <<32, 0, 0, 1>> }
Record1 == <<0, 0, 0, 65, 0, 7, 0, 0>>
Record2 == <<0, 0, 27, 91, 0, 0, 0, 4>>
Records == { <<>>, Record1, Record2, Record1 \o Record2, Record2 \o Record1,
             Record1 \o Record2 \o Record1,
             Record1 \o Record2 \o Record2 \o Record1 }
CacaBuffers ==
  {CacaMagic \o w \o h \o r : w \in Words, h \in Words, r \in Records}

\* Buffers that start like a native one and go on as text or ANSI.
Prefixed ==
  {p \o d : p \in {Str(<<"C", "A", "C", "A">>), Str(<<"C", "A", "C", "B">>),
                   Str(<<"C", "A", "C">>)},
            d \in FragInputs(MaxImportFrags)}

\* Plain text of several lines, with and without '\r'.
TextInputs ==
  { Str(<<"A", "LF", "B", "B", "LF", "C", "C", "C">>),
    Str(<<"C", "C", "C", "LF", "A">>),
    Str(<<"A", "CR", "LF", "B", "CR">>),
    Str(<<"LF", "LF", "A", "LF">>),
    Str(<<"A", "B", "ESC", "[", "LF", "LF", "LF", "C">>) }

\* A cursor moved down to the last row an int can hold, and a character;
\* the same with an erase to the end of the line before the character.
FarDown == Esc(<<"2", "1", "4", "7", "4", "8", "3", "6", "4", "7", "B">>)
FarInputs ==
  { FarDown \o Str(<<"A">>),
    FarDown \o Esc(<<"K">>) \o Str(<<"A">>) }

\* Longer ANSI texts: colour commands in a row, save and restore around a
\* move, an erase between characters, rows and columns beyond the canvas,
\* and commands that are unknown or cut short.
SgrSaveRestore ==
  Esc(<<"1", ";", "3", "1", "m">>) \o Esc(<<"8", "m">>) \o Esc(<<"0", "m">>)
    \o Esc(<<"2", "8", "m">>) \o Str(<<"A">>)
EraseBetween == Str(<<"A", "B">>) \o Esc(<<"K">>) \o Str(<<"C">>)
ScriptInputs ==
  { SgrSaveRestore,
    Esc(<<"9", "0", ";", "1", "0", "7", "m">>) \o Esc(<<"3", "9", ";", "4", "m">>)
      \o Esc(<<"7", ";", "4", "9", ";", "5", "m">>) \o Str(<<"A">>),
    Str(<<"A">>) \o Esc(<<"s">>) \o Str(<<"LF", "A", "A">>) \o Esc(<<"u">>)
      \o Str(<<"B">>),
    EraseBetween,
    Rep(Asc["LF"], 26) \o Str(<<"A">>),
    Esc(<<"3", "0", ";", "9", "0", "H">>) \o Str(<<"A", "LF">>),
    Str(<<"A">>) \o Esc(<<"5", ";", "6", "z">>) \o Str(<<"B">>),
    Str(<<"A">>) \o Esc(<<"1", ";", "2">>) }

\* The sizes passed with a null data.
NullSizes == {0, 1, 16}

Formats ==
  { <<>>, Str(<<"c", "a", "c", "a">>), Str(<<"t", "e", "x", "t">>),
    Str(<<"a", "n", "s", "i">>), Str(<<"A", "N", "S", "I">>),
    Str(<<"C", "a", "c", "a">>), Str(<<"T", "e", "x", "t">>),
    Str(<<"a", "n", "s">>), Str(<<"x", "a", "n", "s", "i">>) }

\* ----------------------------------------------------------- specification

\* A call of cucul_import_canvas with any format: on the short buffers, the
\* native ones and the texts, and on a null data.
InitImport ==
  \/ \E d \in FragInputs(MaxImportFrags) \cup Prefixed \cup CacaBuffers
             \cup TextInputs \cup FarInputs \cup ScriptInputs \cup LongInputs :
       \E f \in Formats : Called(d, f, FALSE)
  \/ \E f \in Formats : \E n \in NullSizes : CalledWith(<<>>, n, f, TRUE)

\* Those calls, and the format "ansi" on the buffers of up to MaxFrags
\* fragments.
Init ==
  \/ InitImport
  \/ \E d \in FragInputs(MaxFrags) : Called(d, Str(<<"a", "n", "s", "i">>), FALSE)

Next ==
  \/ ImportCall
  \/ CacaEnter \/ CacaStep
  \/ TextEnter \/ TextStep
  \/ AnsiEnter \/ AnsiReturn \/ AnsiSauce \/ AnsiCR \/ AnsiLF \/ AnsiEscape
  \/ AnsiPutChar \/ AnsiIntOverflow
  \/ ParseEnd \/ ParseAlpha \/ ParseChar \/ ParseSemi
  \/ CmdPosition \/ CmdUp \/ CmdDown \/ CmdRight \/ CmdLeft \/ CmdSave
  \/ CmdRestore \/ CmdErase \/ CmdClearLine \/ CmdColour \/ CmdOther

Spec == Init /\ [][Next]_vars

\* The calls of InitImport alone.
SpecImport == InitImport /\ [][Next]_vars

\* ------------------------------------------------------ cacademo.c: main

\* cucul_rand(min, max): an integer from min to max - 1.
cucul_rand(min, max) == min..(max - 1)

\* fn[f](a, canvas)
Call(f, a) == [fn |-> f, action |-> a]

\* An effect holds its buffers from its INIT to its FREE.
RECURSIVE LiveAfter(_, _)
LiveAfter(l, q) ==
  IF q = <<>> THEN l
  ELSE LET h == Head(q) IN
       LiveAfter(CASE h.action = "INIT" -> l \cup {h.fn}
                   [] h.action = "FREE" -> l \ {h.fn}
                   [] OTHER -> l,
                 Tail(q))

\* A choice of the next effect that keeps what cucul_rand returned.
ChooseNextAny(r, d) == r

\* next = cucul_rand(0, DEMOS); if(next == demo) next = (next + 1) % DEMOS
ChooseNext(r, d) == IF r = d THEN (r + 1) % DEMOS ELSE r

\* The frames the loop runs, and the frames at which a request for the next
\* effect is delivered while no transition is under way.
MaxFrames == 1045
RequestFrames == {0, 1, TRANSITION_FRAMES + 1, DEMO_FRAMES - 1}

importIdle == <<args, decoder, result, cv, i, ansiLocals, caca, ghosts, ub>>

\* main up to the loop: the display, every effect's PREPARE, the first
\* effect and its INIT; return 1 when there is no display.
MainEnter ==
  /\ pc = "main"
  /\ \E ok \in BOOLEAN :
       IF ok
       THEN \E t \in cucul_rand(0, TRANSITION_COUNT) : \E d \in cucul_rand(0, DEMOS) :
              /\ transition' = t /\ demo' = d
              /\ calls' = [k \in 1..DEMOS |-> Call(k - 1, "PREPARE")]
                             \o <<Call(d, "INIT")>>
              /\ live' = LiveAfter(live, calls')
              /\ pc' = "loop"
       ELSE /\ pc' = "exit" /\ calls' = <<>>
            /\ UNCHANGED <<demo, transition, live>>
  /\ UNCHANGED <<importIdle, next, pause, next_transition, frame>>

\* A key press taken from caca_get_event: ' ', 'n' or another key.
MainKey ==
  /\ pc = "loop"
  /\ \E ch \in {" ", "n", "x"} :
       /\ ch = "n" => (next # -1 \/ frame \in RequestFrames)
       /\ pause' = IF ch = " " THEN (IF pause = 0 THEN 1 ELSE 0) ELSE pause
       /\ next_transition' = IF ch = "n" /\ next = -1 THEN frame
                              ELSE next_transition
  /\ calls' = <<>>
  /\ UNCHANGED <<importIdle, pc, demo, next, transition, frame, live>>

\* CACA_EVENT_QUIT or CACA_KEY_ESCAPE: goto end, where the next effect, if
\* there is one, and the current one are freed.
MainQuit ==
  /\ pc = "loop"
  /\ calls' = (IF next # -1 THEN <<Call(next, "FREE")>> ELSE <<>>)
                 \o <<Call(demo, "FREE")>>
  /\ live' = LiveAfter(live, calls')
  /\ pc' = "exit"
  /\ UNCHANGED <<importIdle, demo, next, pause, next_transition, transition,
                 frame>>

\* No event is left and pause is set: goto paused, the rendering alone.
MainPaused ==
  /\ pc = "loop" /\ pause # 0
  /\ calls' = <<Call(demo, "RENDER")>>
                 \o (IF next # -1 THEN <<Call(next, "RENDER")>> ELSE <<>>)
  /\ \E t \in (IF next # -1 THEN {transition}
                ELSE cucul_rand(0, TRANSITION_COUNT)) : transition' = t
  /\ live' = LiveAfter(live, calls')
  /\ UNCHANGED <<importIdle, pc, demo, next, pause, next_transition, frame>>

\* No event is left and pause is clear: the update, the start or the end of
\* a transition, the update of the next effect, frame++ and the rendering.
MainFrame ==
  /\ pc = "loop" /\ pause = 0
  /\ frame < MaxFrames
  /\ \E r \in cucul_rand(0, DEMOS) :
       LET start == frame = next_transition
           finish == ~start /\ frame = next_transition + TRANSITION_FRAMES
           next1 == IF start THEN ChooseNext(r, demo)
                    ELSE IF finish THEN -1 ELSE next
           demo1 == IF finish THEN next ELSE demo
       IN /\ next' = next1 /\ demo' = demo1
          /\ next_transition' = IF finish THEN frame + DEMO_FRAMES
                                 ELSE next_transition
          /\ calls' = <<Call(demo, "UPDATE")>>
                \o (IF start THEN <<Call(next1, "INIT")>> ELSE <<>>)
                \o (IF finish THEN <<Call(demo, "FREE")>> ELSE <<>>)
                \o (IF next1 # -1 THEN <<Call(next1, "UPDATE")>> ELSE <<>>)
                \o <<Call(demo1, "RENDER")>>
                \o (IF next1 # -1 THEN <<Call(next1, "RENDER")>> ELSE <<>>)
          /\ \E t \in (IF next1 # -1 THEN {transition}
                        ELSE cucul_rand(0, TRANSITION_COUNT)) : transition' = t
  /\ frame' = frame + 1
  /\ live' = LiveAfter(live, calls')
  /\ UNCHANGED <<importIdle, pc, pause>>

\* The demo program at the entry of main.
InitMain ==
  /\ data = <<>> /\ size = 0 /\ format = <<>> /\ nulldata = FALSE
  /\ pc = "main" /\ decoder = "none" /\ result = "pending" /\ cv = NoCanvas("unset")
  /\ i = 0 /\ x = 0 /\ y = 0 /\ width = 0 /\ height = 0
  /\ save_x = 0 /\ save_y = 0 /\ skip = 0 /\ c = 0 /\ argv = <<>>
  /\ cs = NoColour /\ pt = NoParse /\ caca = NoCaca
  /\ wrote = NoWrite /\ oobRead = FALSE /\ store = NoStore /\ ub = "none"
  /\ MainLocalsInit

NextMain == MainEnter \/ MainKey \/ MainQuit \/ MainPaused \/ MainFrame

SpecMain == InitMain /\ [][NextMain]_vars

\* ------------------------------------------------------------ properties

InAnsi == decoder = "ansi"
Esc131mA == Esc(<<"1", ";", "3", "1", "m">>) \o Str(<<"A">>)

\* C1: in import_ansi every cell write, of an ordinary character and of each
\* space of the 'K' command, targets a position with 0 <= x < width and
\* 0 <= y < height of the canvas at that moment.
C1_WritesInsideCanvas ==
  (InAnsi /\ wrote.n > 0) =>
    /\ 0 <= wrote.x /\ wrote.x + wrote.n <= wrote.w
    /\ 0 <= wrote.y /\ wrote.y < wrote.h

\* C2: import_ansi reads input bytes at the indices 0..size-1 only, also when
\* the buffer ends with ESC or with ESC '['.
C2_ReadsInsideBuffer == InAnsi => ~oobRead

\* C3: parse_tuple never stores an entry at an index >= 1024 of the argument
\* tuple and never a byte at an index >= 1024 of the numeric scratch buffer.
C3_StoresInsideArrays == store.argv < ARGV_SIZE /\ store.nbr < NBR_SIZE

\* The native magic at the start of the buffer, and ESC '[' anywhere in it.
HasNativeMagic ==
  size >= 4 /\ SubSeq(data, 1, 4) = Str(<<"C", "A", "C", "A">>)
HasIntroducer ==
  \E k \in 1..(Len(data) - 1) : data[k] = Asc["ESC"] /\ data[k + 1] = Asc["["]
Autodetected == format = <<>> /\ ~nulldata /\ size > 0 /\ pc # "import"

\* C4: under autodetection a buffer that starts with the native magic is
\* always handed to import_caca, also when ESC '[' follows later.
C4_MagicGoesToCaca == (Autodetected /\ HasNativeMagic) => decoder = "caca"

\* C5: under autodetection a non-empty buffer without the native magic goes
\* to import_ansi when it holds ESC '[' at any offset and to import_text when
\* it does not.
C5_IntroducerGoesToAnsi ==
  (Autodetected /\ ~HasNativeMagic) =>
    decoder = (IF HasIntroducer THEN "ansi" ELSE "text")

\* C6: an SGR command with an empty parameter tuple acts as code 0: after it
\* foreground and background are the default colour, bold and reverse are
\* off and the canvas colour is set accordingly.
C6_EmptySgrResets ==
  [][(pc = "dispatch" /\ Is("m") /\ argc = 0) =>
       /\ cs'.fg = CUCUL_COLOR_DEFAULT /\ cs'.bg = CUCUL_COLOR_DEFAULT
       /\ cs'.bold = 0 /\ cs'.reverse = 0
       /\ cv'.fgcolor = CUCUL_COLOR_DEFAULT
       /\ cv'.bgcolor = CUCUL_COLOR_DEFAULT]_vars

\* C7: decoding ESC [ 1 ; 3 1 m A writes 'A' at (0,0) in bright red on the
\* background that was active before, black.
C7_BoldRedOnBlack ==
  (InAnsi /\ data = Esc131mA /\ result = "cv") =>
    /\ <<0, 0>> \in DOMAIN cv.cells
    /\ cv.cells[<<0, 0>>] = [ch |-> Asc["A"], fg |-> CUCUL_COLOR_RED + 8,
                             bg |-> CUCUL_COLOR_BLACK]

\* C8: after cursor up the row is max(0, y - n) and after cursor left the
\* column is max(0, x - n), n the first argument or 1: never negative and
\* never larger than before the command.
C8_UpAndLeftClamp ==
  [][/\ (pc = "dispatch" /\ Is("A")) =>
          /\ y' >= 0 /\ y' <= y
          /\ Arg0Or1 >= 0 => y' = Max(0, y - Arg0Or1)
     /\ (pc = "dispatch" /\ Is("D")) =>
          /\ x' >= 0 /\ x' <= x
          /\ Arg0Or1 >= 0 => x' = Max(0, x - Arg0Or1)]_vars

\* The offsets at which 0x1A "SAUCE00" lies in the buffer.
SauceOffsets == {p \in 0..(size - 8) : IsSauce(p)}

\* C9: import_ansi stops at the offset p of 0x1A "SAUCE00", wherever it lies:
\* the input index never passes p and no byte at an offset >= p is written.
C9_SauceEndsDecoding ==
  InAnsi =>
    \A p \in SauceOffsets :
      /\ pc \in {"ansi_loop", "parse", "dispatch", "done"} => i <= p
      /\ wrote.n > 0 => wrote.off < p

\* C10: import_caca returns a canvas only if the buffer length is exactly
\* 16 + width * height * 8, the product taken without wrapping, and reads no
\* record outside the buffer.
C10_ExactNativeSize ==
  decoder = "caca" =>
    /\ ~oobRead
    /\ result = "cv" =>
         Strip(NatDigits(size)) =
           CacaSizeExact(SubSeq(data, 9, 12), SubSeq(data, 13, 16))

\* A well-formed native buffer: the magic, a width and a height that are not
\* zero, and width * height records of 8 bytes.
WordValue(w) == w[2] * 65536 + w[3] * 256 + w[4]
DeclaredWidth == SubSeq(data, 9, 12)
DeclaredHeight == SubSeq(data, 13, 16)
ValidNative ==
  /\ ~nulldata /\ size >= 16
  /\ SubSeq(data, 1, 8) = Str(<<"C", "A", "C", "A", "C", "A", "N", "V">>)
  /\ DeclaredWidth # <<0, 0, 0, 0>> /\ DeclaredHeight # <<0, 0, 0, 0>>
  /\ Strip(NatDigits(size)) = CacaSizeExact(DeclaredWidth, DeclaredHeight)
RecordCells ==
  {<<n % WordValue(DeclaredWidth), n \div WordValue(DeclaredWidth)>> :
     n \in 0..((size - 16) \div 8 - 1)}

\* C11: import_caca turns a well-formed native buffer into a canvas of the
\* declared width and height whose cell n, row-major, has the first four
\* bytes of record n as its character and the last four as its attribute,
\* most significant byte first; it returns NULL only when the canvas could
\* not be created.
C11_NativeCellsAreRecords ==
  (decoder = "caca" /\ ValidNative /\ pc = "done") =>
    IF cv.handle = "NULL" THEN result = "NULL"
    ELSE /\ result = "cv"
         /\ cv.width = DeclaredWidth /\ cv.height = DeclaredHeight
         /\ DOMAIN cv.cells = RecordCells
         /\ \A n \in 0..((size - 16) \div 8 - 1) :
              cv.cells[<<n % WordValue(DeclaredWidth),
                         n \div WordValue(DeclaredWidth)>>] =
                [ch |-> SubSeq(data, 17 + 8 * n, 20 + 8 * n),
                 attr |-> SubSeq(data, 21 + 8 * n, 24 + 8 * n)]

\* A canvas of 2 x 2 cells decoded from four records.
C11_Witness ==
  /\ decoder = "caca" /\ ValidNative /\ pc = "done" /\ result = "cv"
  /\ size = 48 /\ WordValue(DeclaredWidth) = 2
  /\ Cardinality(DOMAIN cv.cells) = 4

\* C12: when the canvas creation fails in a decoder, the call returns NULL
\* and makes no further operation on the missing canvas.
C12_CreationFailureReturnsError ==
  cv.handle = "NULL" => (ub = "none" /\ pc = "done" /\ result = "NULL")

\* C13: the integers parse_tuple produces are a function of the input bytes
\* alone: whenever it converts nbr at a ';', nbr holds bytes it has stored
\* from the input in this call, so that two decodings of a buffer agree.
C13_ParserReadsStoredBytes ==
  (pc = "parse" /\ pt.i < pt.size /\ ParseByteAt = Asc[";"]) => pt.set

\* The format in lower case, and the formats cucul_import_canvas knows.
Lower(s) == [k \in 1..Len(s) |-> IF s[k] \in 65..90 THEN s[k] + 32 ELSE s[k]]
NamedFormats ==
  { Str(<<"c", "a", "c", "a">>), Str(<<"t", "e", "x", "t">>),
    Str(<<"a", "n", "s", "i">>) }
\* The call has returned NULL: no decoder ran and no canvas was created.
RefusedAtOnce ==
  pc = "done" /\ result = "NULL" /\ decoder = "none" /\ cv.handle = "unset"

\* C14: cucul_import_canvas called with a null buffer or with size 0 returns
\* NULL for every format, before any detection or decoder runs and without
\* creating a canvas.
C14_EmptyOrNullRefused ==
  (pc # "import" /\ (nulldata \/ size = 0)) => RefusedAtOnce

\* A null buffer with a size that is not zero and a format that names a decoder.
C14_Witness ==
  /\ pc = "done" /\ nulldata /\ size = 16 /\ Lower(format) \in NamedFormats
  /\ result = "NULL"

\* C15: with a non-empty buffer and a format that is none of "", "text",
\* "caca", "ansi" in any letter case, cucul_import_canvas returns NULL: no
\* decoder is called and no canvas created, whatever the buffer holds.
C15_UnknownFormatRefused ==
  (pc # "import" /\ ~nulldata /\ size > 0
     /\ Lower(format) \notin NamedFormats \cup {<<>>}) => RefusedAtOnce

\* The format "ans", a prefix of a known one, on a buffer with ESC '['.
C15_Witness ==
  /\ pc = "done" /\ ~nulldata /\ result = "NULL"
  /\ format = Str(<<"a", "n", "s">>) /\ HasIntroducer

\* The positions of the code that belong to each decoder.
DecoderPositions ==
  [d \in {"caca", "text", "ansi"} |->
     CASE d = "caca" -> {"caca", "caca_loop", "done", "ub"}
       [] d = "text" -> {"text", "text_loop", "done", "ub"}
       [] d = "ansi" -> {"ansi", "ansi_loop", "parse", "dispatch", "done", "ub"}]
NamedDecoder ==
  CASE Lower(format) = Str(<<"c", "a", "c", "a">>) -> "caca"
    [] Lower(format) = Str(<<"t", "e", "x", "t">>) -> "text"
    [] Lower(format) = Str(<<"a", "n", "s", "i">>) -> "ansi"
    [] OTHER -> "none"

\* C16: when the format names "caca", "text" or "ansi" in any letter case,
\* exactly the named decoder runs on the buffer, whatever the buffer holds.
C16_NamedDecoderRuns ==
  (pc # "import" /\ ~nulldata /\ size > 0 /\ Lower(format) \in NamedFormats) =>
    /\ decoder = NamedDecoder
    /\ pc \in DecoderPositions[NamedDecoder]

\* The format "Text" on a buffer that holds ESC '[', decoded as text.
C16_Witness ==
  /\ Lower(format) = Str(<<"t", "e", "x", "t">>) /\ format # Lower(format)
  /\ HasIntroducer /\ decoder = "text" /\ pc = "done" /\ result = "cv"

Kept == SelectSeq(data, LAMBDA b : b # 13)
Breaks(t, k) == {j \in 1..(k - 1) : t[j] = 10}
LineOf(t, k) == Cardinality(Breaks(t, k))
ColOf(t, k) ==
  LET br == Breaks(t, k) IN
  IF br = {} THEN k - 1
  ELSE k - 1 - (CHOOSE j \in br : \A m \in br : m <= j)
LineBytes(t) == {k \in 1..Len(t) : t[k] # 10}
\* The cell of each byte of the lines of t.
LineCells(t) ==
  [k \in LineBytes(t) |-> <<ColOf(t, k), LineOf(t, k)>>]

\* C18: import_text puts byte x of line y, the lines split at '\n' and the
\* '\r' bytes dropped, into cell (x, y) and writes no other cell; the canvas
\* is wider than every column and taller than every row written, and every
\* write lies inside the canvas as it is at that moment.
C18_TextCellsAreLines ==
  (decoder = "text" /\ cv.handle = "valid") =>
    /\ wrote.n > 0 =>
         /\ 0 <= wrote.x /\ wrote.x < wrote.w
         /\ 0 <= wrote.y /\ wrote.y < wrote.h
    /\ pc = "done" =>
         LET t == Kept
             at == LineCells(t)
         IN /\ result = "cv"
            /\ DOMAIN cv.cells = {at[k] : k \in DOMAIN at}
            /\ \A k \in DOMAIN at :
                 /\ cv.cells[at[k]].ch = t[k]
                 /\ cv.width > at[k][1] /\ cv.height > at[k][2]
            /\ cv.width >= 1 /\ cv.height >= 1

\* "A\nBB\nCCC" decoded as text: three rows in a canvas of 3 x 3.
C18_Witness ==
  /\ decoder = "text" /\ pc = "done" /\ result = "cv"
  /\ data = Str(<<"A", "LF", "B", "B", "LF", "C", "C", "C">>)
  /\ cv.width = 3 /\ cv.height = 3
  /\ cv.cells[<<2, 2>>].ch = Asc["C"] /\ cv.cells[<<0, 0>>].ch = Asc["A"]
  /\ <<1, 0>> \notin DOMAIN cv.cells

\* C19: while import_text or import_ansi decodes, the canvas never gets
\* narrower or lower and its width and height stay positive, also after a
\* cursor command with a very large argument; in import_ansi the width
\* stays 80.
C19_CanvasOnlyGrows ==
  [][(decoder \in {"text", "ansi"} /\ cv.handle = "valid"
        /\ cv'.handle = "valid") =>
       /\ cv'.width >= cv.width /\ cv'.height >= cv.height
       /\ cv'.width > 0 /\ cv'.height > 0
       /\ width' >= width /\ height' >= height
       /\ decoder = "ansi" => (cv'.width = 80 /\ width' = 80)]_vars

\* C20: every decoder makes a single forward pass.  In import_ansi each turn
\* of the loop leaves the input index larger than it found it, and skip is
\* at least 1 after every escape sequence (a turn that enters one began two
\* bytes before the index it dispatches at); import_text advances by one
\* byte a turn; the call leaves the autodetection in one step.
C20_IndexAdvances ==
  [][/\ pc = "dispatch" => (skip >= 1 /\ i' > i - 2)
     /\ (pc = "ansi_loop" /\ pc' \in {"ansi_loop", "parse"}) => i' > i
     /\ (pc = "text_loop" /\ pc' = "text_loop") => i' = i + 1
     /\ pc = "import" => pc' # "import"]_vars

\* C21: at a cursor-position command ('H' or 'f') the arguments dispatched
\* are the integers parse_tuple stored, as many as it stored: none gives
\* (0,0), one gives row a - 1 and column 0, two give row a - 1 and column
\* b - 1, whatever the values are, END_ARG (4919) included.
C21_PositionTakesParsedIntegers ==
  [][(pc = "dispatch" /\ (Is("H") \/ Is("f"))) =>
       CASE Len(argv) = 0 -> x' = 0 /\ y' = 0
         [] Len(argv) = 1 -> y' = Sub32(argv[1], 1) /\ x' = 0
         [] Len(argv) = 2 -> y' = Sub32(argv[1], 1) /\ x' = Sub32(argv[2], 1)
         [] OTHER -> TRUE]_vars

\* C22: the foreground and background kept in the colour state after an SGR
\* command are those the codes give; the bold promotion goes into the
\* canvas colour only.  So SGR 1;31, SGR 8, SGR 0, SGR 28 leaves the
\* canvas foreground plain red.
C22_StoredColourIsUnpromoted ==
  [][/\ (pc = "dispatch" /\ Is("m")) =>
          /\ cs'.fg = ApplyModifiers(SubSeq(argv, 1, argc), cs).fg
          /\ cs'.bg = ApplyModifiers(SubSeq(argv, 1, argc), cs).bg
     /\ (InAnsi /\ data = SgrSaveRestore /\ pc' = "done") =>
          cv'.fgcolor = CUCUL_COLOR_RED]_vars

\* The SGR table: the palette in ANSI order (black, red, green, brown, blue,
\* magenta, cyan, light gray) and the effect of each code on the six fields.
AnsiPalette == [n \in 0..7 |-> <<0, 4, 2, 6, 1, 5, 3, 7>>[n + 1]]
SgrCodes == (-2..110) \cup {4919, 2147483647}
SgrTable(code, st) ==
  CASE code \in 30..37 -> [st EXCEPT !.fg = AnsiPalette[code - 30]]
    [] code \in 40..47 -> [st EXCEPT !.bg = AnsiPalette[code - 40]]
    [] code \in 90..97 -> [st EXCEPT !.fg = AnsiPalette[code - 90] + 8]
    [] code \in 100..107 -> [st EXCEPT !.bg = AnsiPalette[code - 100] + 8]
    [] code = 0 -> [st EXCEPT !.fg = 16, !.bg = 16, !.bold = 0, !.reverse = 0]
    [] code = 1 -> [st EXCEPT !.bold = 1]
    [] code = 7 -> [st EXCEPT !.reverse = 1]
    [] code = 8 -> [st EXCEPT !.save_fg = st.fg, !.save_bg = st.bg,
                              !.fg = 32, !.bg = 32]
    [] code = 28 -> [st EXCEPT !.fg = st.save_fg, !.bg = st.save_bg]
    [] code = 39 -> [st EXCEPT !.fg = 16]
    [] code = 49 -> [st EXCEPT !.bg = 16]
    [] OTHER -> st

\* C23: manage_modifiers is the SGR table: for every code, applied to the
\* colour state the decoder is in, it gives the state the table gives; codes
\* 4, 5 and all the others change none of the six fields.
C23_ModifiersAreTheTable ==
  (InAnsi /\ pc = "dispatch") =>
    \A code \in SgrCodes : manage_modifiers(code, cs) = SgrTable(code, cs)

\* The restore code about to be applied to a state saved in bright red and
\* reset since.
C23_Witness ==
  /\ InAnsi /\ pc = "dispatch" /\ Is("m") /\ argv = <<28>>
  /\ cs.save_fg = 12 /\ cs.fg = 16 /\ cs.bold = 0

\* A letter, and ESC '[' '1' '_' 'A'.
IsLetter(b) == (b >= 65 /\ b <= 90) \/ (b >= 97 /\ b <= 122)
Esc1UnderscoreA == Esc(<<"1", "_", "A">>)

\* C24: the final byte of an escape sequence is the first letter (A-Z, a-z)
\* after ESC '['; the bytes 0x5B-0x60 are parameter bytes.  So
\* ESC '[' '1' '_' 'A' is a cursor up, and its 'A' is not written.
C24_FinalByteIsALetter ==
  InAnsi =>
    /\ pc = "dispatch" => (c = 0 \/ IsLetter(c))
    /\ (data = Esc1UnderscoreA /\ pc = "done") =>
         (cv.handle = "valid" => DOMAIN cv.cells = {})

\* C25: each integer of the tuple comes from the bytes of its own field:
\* at a ';' the value stored is the conversion of the bytes met since the
\* last ';' (of no bytes, for an empty field), and a sequence without
\* parameter bytes gives the empty tuple.
C25_FieldsAreIndependent ==
  [][/\ (pc = "parse" /\ pt.i < pt.size /\ ParseByteAt = Asc[";"]
           /\ pc' = "parse") =>
          \E v \in atoi(IF pt.j = 0 THEN <<>> ELSE pt.nbr) :
            argv' = Append(argv, v)
     /\ (pc = "parse" /\ pc' = "dispatch" /\ skip' = 1) => argv' = <<>>]_vars

\* C26: the saved cursor is one slot.  It is (0,0) at the entry of
\* import_ansi and changes at a save command ('s') only, which puts the
\* cursor into it and changes nothing else; a restore command ('u') sets
\* the cursor to the slot; neither changes the colour state or the canvas.
C26_SavedCursorIsOneSlot ==
  [][/\ pc = "ansi" => (save_x' = 0 /\ save_y' = 0)
     /\ (pc = "dispatch" /\ Is("s")) =>
          /\ save_x' = x /\ save_y' = y
          /\ UNCHANGED <<x, y, cs, cv, width, height>>
     /\ (pc = "dispatch" /\ Is("u")) =>
          /\ x' = save_x /\ y' = save_y
          /\ UNCHANGED <<save_x, save_y, cs, cv, width, height>>
     /\ (InAnsi /\ pc # "ansi" /\ ~(pc = "dispatch" /\ Is("s"))) =>
          UNCHANGED <<save_x, save_y>>]_vars

\* 'A', save at (1,0), a newline and two characters, then the restore.
C26_Witness ==
  /\ InAnsi /\ pc = "ansi_loop" /\ Is("u")
  /\ x = 1 /\ y = 0 /\ save_x = 1 /\ save_y = 0
  /\ <<1, 1>> \in DOMAIN cv.cells

\* C27: the 'K' command writes a space in the active colour into every cell
\* of row y from column x to column width - 1, leaves every other cell, y,
\* the colour state and the dimensions as they were and sets x to the width;
\* an ordinary character met with x at or past the width is written at
\* column 0 of row y + 1, a row that an int can hold.
C27_ClearToEndOfLine ==
  [][/\ (pc = "dispatch" /\ Is("K")) =>
          LET row == {j \in 0..(cv.width - 1) :
                        j >= x /\ j < width /\ y >= 0 /\ y < cv.height} IN
          /\ \A j \in row :
                /\ <<j, y>> \in DOMAIN cv'.cells
                /\ cv'.cells[<<j, y>>] =
                     [ch |-> Asc[" "], fg |-> cv.fgcolor, bg |-> cv.bgcolor]
          /\ \A p \in DOMAIN cv'.cells :
                (p[2] # y \/ p[1] \notin row) =>
                  (p \in DOMAIN cv.cells /\ cv'.cells[p] = cv.cells[p])
          /\ \A p \in DOMAIN cv.cells : p \in DOMAIN cv'.cells
          /\ x' = width /\ y' = y /\ cs' = cs
          /\ width' = width /\ height' = height
          /\ cv'.width = cv.width /\ cv'.height = cv.height
          /\ cv'.fgcolor = cv.fgcolor /\ cv'.bgcolor = cv.bgcolor
     /\ (pc = "ansi_loop" /\ x >= width /\ wrote'.n = 1 /\ pc' = "ansi_loop") =>
          /\ y < INT_MAX
          /\ wrote'.x = 0 /\ wrote'.y = y + 1
          /\ <<0, y + 1>> \in DOMAIN cv'.cells]_vars

\* C28: in import_ansi the canvas is resized only by an ordinary character
\* write whose row is at or past the height, and then to that row plus one
\* with the width kept at 80; no other step changes the dimensions.  At the
\* return the canvas is 80 wide and as high as the decoder's height, which is
\* 25 or, when larger, one more than a row that holds a written cell, and no
\* cell lies at or past the height.
C28_ResizeOnlyAtWrite ==
  [][/\ (InAnsi /\ pc # "ansi" /\ cv.handle = "valid") =>
          IF pc = "ansi_loop" /\ wrote'.n = 1 /\ wrote'.y >= height
          THEN /\ wrote'.y < INT_MAX
               /\ height' = wrote'.y + 1
               /\ cv'.height = height' /\ cv'.width = 80 /\ width' = 80
          ELSE /\ cv'.height = cv.height /\ cv'.width = cv.width
               /\ height' = height /\ width' = width
     /\ (InAnsi /\ pc' = "done" /\ cv'.handle = "valid") =>
          /\ cv'.width = 80 /\ cv'.height = height' /\ height' >= 25
          /\ height' > 25 => \E p \in DOMAIN cv'.cells : p[2] = height' - 1
          /\ \A p \in DOMAIN cv'.cells : p[2] < height']_vars

\* C29: an escape sequence whose final byte is none of f, H, A, B, C, D, s,
\* u, J, K, m, or that has no final byte, is a no-op.  From the introducer
\* to the end of its dispatch no step changes the cursor, the saved cursor,
\* the colour state, the canvas or the dimensions, none writes a cell and
\* none leaves the decoder; the dispatch resumes the loop at the byte after
\* the final byte, or past the end of the input when there is none.
KnownFinals ==
  {Asc[l] : l \in {"f", "H", "A", "B", "C", "D", "s", "u", "J", "K", "m"}}
SequenceFrame == <<x, y, save_x, save_y, cs, cv, width, height>>
C29_UnknownSequenceIsNoOp ==
  [][/\ (pc = "ansi_loop" /\ pc' = "parse" /\ c' \notin KnownFinals) =>
          (UNCHANGED SequenceFrame /\ wrote'.n = 0)
     /\ (pc \in {"parse", "dispatch"} /\ c \notin KnownFinals) =>
          /\ UNCHANGED SequenceFrame /\ wrote'.n = 0
          /\ pc' \in {"parse", "dispatch", "ansi_loop"}
     /\ (pc = "dispatch" /\ c \notin KnownFinals) =>
          /\ pc' = "ansi_loop"
          /\ IF c = 0 THEN i' >= size
             ELSE /\ i' >= i + 1 /\ i' <= size /\ Byte(i' - 1) = c
                  /\ \A k \in i..(i' - 2) : ~IS_ALPHA(Byte(k))]_vars

\* C30: in the demo's main loop, whatever keys arrive between frames, an
\* effect is given UPDATE and RENDER only between its INIT and its FREE, the
\* effect chosen at a transition differs from the running one, INIT is never
\* given to an effect that is initialised, FREE only to one that is, and at
\* the exit every initialised effect has been freed.
CallsAreInOrder(l, q) ==
  \A k \in 1..Len(q) :
    LET before == LiveAfter(l, SubSeq(q, 1, k - 1)) IN
    CASE q[k].action \in {"UPDATE", "RENDER", "FREE"} -> q[k].fn \in before
      [] q[k].action = "INIT" -> q[k].fn \notin before
      [] OTHER -> TRUE
C30_EffectLifecycle ==
  [][(pc = "main" \/ pc = "loop") =>
       /\ CallsAreInOrder(live, calls')
       /\ \A k \in 1..Len(calls') :
            (pc = "loop" /\ calls'[k].action = "INIT") =>
              (calls'[k].fn # demo /\ calls'[k].fn \in 0..(DEMOS - 1))
       /\ pc' = "loop" =>
            (live' = {demo'} \cup (IF next' # -1 THEN {next'} ELSE {})
              /\ demo' # next')
       /\ pc' = "exit" => (live' = {})]_vars

\* The exit during the transition that starts by itself at frame
\* DEMO_FRAMES: two different effects are freed.
C30_Witness ==
  /\ pc = "exit" /\ frame > DEMO_FRAMES /\ next # -1 /\ next # demo
  /\ calls = <<Call(next, "FREE"), Call(demo, "FREE")>>
  /\ live = {}

====
